---- MODULE Spec2Model ----
(***************************************************************************)
(* Turn-detection orchestration of the streaming voice agent               *)
(* (the AudioRecorder component that talks to Deepgram Flux v2).           *)
(*                                                                         *)
(* The component is one React instance whose refs and state are shared by  *)
(* every listening session started from it.  Each handler of the source    *)
(* (a WebSocket callback, a timer callback, the continuation of an awaited *)
(* fetch, a click handler) runs to completion and is one action here.      *)
(* Subroutines the handlers call (cleanup, resetSilenceTimer,              *)
(* processTranscript, checkWaitIntent) are operators from a snapshot of    *)
(* the state to the state after the call, so that an action is the         *)
(* composition its handler performs.                                       *)
(*                                                                         *)
(* Not modelled: the audio level meter, turnState and processingMessage    *)
(* (display only), the "Connected" frame (ignored by the handler), the     *)
(* unmount effect.                                                         *)
(*                                                                         *)
(* The one-shot recorder (the other AudioRecorder component, which posts a *)
(* finished recording to /api/transcribe) is a second state machine on its *)
(* own variables: RecorderSpec.  Each of the two specifications leaves the *)
(* variables of the other component at their initial values.               *)
(***************************************************************************)
EXTENDS Integers, Sequences, FiniteSets, TLC

\* ------------------------------------------------------------- bounds
\* Sessions that may be started with startListening, one after another.
MaxSessions == 2
\* Finalization points (EagerEndOfTurn and EndOfTurn frames) the recognizer
\* delivers over the whole run; the other frames are not limited.
MaxCandidates == 2

Sessions == 1..MaxSessions

\* Transcript texts are sequences of characters: "", " ", "a", "b ".
Transcripts == { <<>>, <<" ">>, <<"a">>, <<"b", " ">> }

ConnectionStates ==
    {"disconnected", "connecting", "connected", "processing", "responding"}

VARIABLES
    \* React state
    connectionState,        \* useState<ConnectionState>
    error,                  \* useState<string>: "" or the cause surfaced
    liveTranscript,         \* useState<string>
    isExtendedWait,         \* useState(false)
    audioUrl,               \* useState<string | null>: "null" or a url
    \* refs
    websocketRef,           \* 0 (null) or the session whose socket it holds
    mediaStreamRef,         \* 0 (null) or the session whose microphone it holds
    processorRef,           \* 0 (null) or the session whose encoder node it holds
    isProcessingRef,
    isCheckingWaitIntentRef,
    eagerEndTimeoutRef,     \* 0 (null) or a timer handle
    silenceTimeoutRef,      \* 0 (null) or a timer handle
    \* the browser: sockets, timers, promises, the audio element
    ws,                     \* readyState of each session's WebSocket
    pc,                     \* where each startListening call stands: "idle",
                            \* "await", "done" (socket made), "open" (onopen ran:
                            \* the processor runs), "closed" (cleanup stopped it)
    closure,                \* connectionState captured by each session's handlers
    current,                \* 0 or the session started last
    eagerTimers,            \* pending 800 ms timers, in creation order
    silenceTimers,          \* pending Watchdog timers
    gateCalls,              \* POST /api/check-wait-intent in flight
    finCalls,               \* POST /api/process-stream in flight
    audioPlaying,           \* the hidden <audio> element is playing
    effects,                \* calls the handler that ran last made on timers (in
                            \* cleanup), audio graph, microphone and socket, in order
    received,               \* what the request that settled in the last step was
                            \* answered with: the Gate's reply, or the frames of
                            \* the Finalizer's response stream
    \* history
    nPosts,                 \* POST /api/process-stream issued by each session:
                            \* "none", "one", or "more" than one
    nCandidates,            \* EagerEndOfTurn and EndOfTurn frames delivered so far
    trigger                 \* the trigger handled last and its input

\* The one-shot recorder.
VARIABLES
    isRecording,            \* useState(false)
    recordingTime,          \* useState<number>(0), seconds
    isLoading,              \* useState(false)
    recorderError,          \* its useState<string> error: "" or the cause
    data,                   \* questionNumber and audioUrl of the last response
                            \* shown: <<>> is null, <<n>> the number n
    mediaRecorderRef,       \* 0 (null) or the recording whose MediaRecorder it holds
    timerIntervalRef,       \* 0 (null) or the recording whose interval it holds
    intervals,              \* recordings whose one-second interval is running
    recorder,               \* each recording: "none", "asking" (getUserMedia
                            \* pending), "denied", "recording", "stopping" (stop()
                            \* called, onstop pending), "transcribing", "finished"
    seen,                   \* isRecording as captured by each startRecording call
    nRecordings,            \* history: startRecording calls so far
    responseText            \* history: <<>>, or <<reply>> for the classifier reply
                            \* the response that settled in the last step came from

streamVars == << connectionState, error, liveTranscript, isExtendedWait, audioUrl,
           websocketRef, mediaStreamRef, processorRef, isProcessingRef,
           isCheckingWaitIntentRef, eagerEndTimeoutRef, silenceTimeoutRef,
           ws, pc, closure, current, eagerTimers, silenceTimers, gateCalls, finCalls,
           audioPlaying, effects, received, nPosts, nCandidates, trigger >>

recorderVars == << isRecording, recordingTime, isLoading, recorderError, data,
                   mediaRecorderRef, timerIntervalRef, intervals, recorder, seen,
                   nRecordings, responseText >>

vars == << streamVars, recorderVars >>

\* The state as one record, so that subroutines compose.  A handler starts
\* with nothing called yet.
Cur ==
    [ connectionState |-> connectionState, error |-> error,
      liveTranscript |-> liveTranscript, isExtendedWait |-> isExtendedWait,
      audioUrl |-> audioUrl, websocketRef |-> websocketRef,
      mediaStreamRef |-> mediaStreamRef, processorRef |-> processorRef,
      isProcessingRef |-> isProcessingRef,
      isCheckingWaitIntentRef |-> isCheckingWaitIntentRef,
      eagerEndTimeoutRef |-> eagerEndTimeoutRef,
      silenceTimeoutRef |-> silenceTimeoutRef, ws |-> ws, pc |-> pc,
      closure |-> closure, current |-> current,
      eagerTimers |-> eagerTimers,
      silenceTimers |-> silenceTimers, gateCalls |-> gateCalls,
      finCalls |-> finCalls, audioPlaying |-> audioPlaying, effects |-> <<>>,
      received |-> <<>>,
      nPosts |-> nPosts, nCandidates |-> nCandidates ]

\* Assigns the state m; the bound v has m evaluated once.
Set(m) ==
    \E v \in {m} :
        /\ connectionState' = v.connectionState
        /\ error' = v.error
        /\ liveTranscript' = v.liveTranscript
        /\ isExtendedWait' = v.isExtendedWait
        /\ audioUrl' = v.audioUrl
        /\ websocketRef' = v.websocketRef
        /\ mediaStreamRef' = v.mediaStreamRef
        /\ processorRef' = v.processorRef
        /\ isProcessingRef' = v.isProcessingRef
        /\ isCheckingWaitIntentRef' = v.isCheckingWaitIntentRef
        /\ eagerEndTimeoutRef' = v.eagerEndTimeoutRef
        /\ silenceTimeoutRef' = v.silenceTimeoutRef
        /\ ws' = v.ws
        /\ pc' = v.pc
        /\ closure' = v.closure
        /\ current' = v.current
        /\ eagerTimers' = v.eagerTimers
        /\ silenceTimers' = v.silenceTimers
        /\ gateCalls' = v.gateCalls
        /\ finCalls' = v.finCalls
        /\ audioPlaying' = v.audioPlaying
        /\ effects' = v.effects
        /\ received' = v.received
        /\ nPosts' = v.nPosts
        /\ nCandidates' = v.nCandidates
        /\ UNCHANGED recorderVars

\* History: the handler that ran last, the session whose closure it is (0 for
\* a handler of the component), the transcript it was given and, for a settled
\* Gate request, the reply.
Trigger(kind, s, transcript, isWaitIntent) ==
    trigger' = [kind |-> kind, sess |-> s, transcript |-> transcript,
                isWaitIntent |-> isWaitIntent]

\* ------------------------------------------------------------ strings
\* `if (transcript)` as if the empty string were truthy too.
TruthyAlways(t) == Len(t) >= 0

\* `if (transcript)`: a string is truthy unless it is empty.
Truthy(t) == t # <<>>

RECURSIVE TrimStart(_)
TrimStart(t) ==
    IF t # <<>> /\ Head(t) = " " THEN TrimStart(Tail(t)) ELSE t

RECURSIVE TrimEnd(_)
TrimEnd(t) ==
    IF t # <<>> /\ t[Len(t)] = " " THEN TrimEnd(SubSeq(t, 1, Len(t) - 1)) ELSE t

\* String.prototype.trim
Trim(t) == TrimEnd(TrimStart(t))

\* ------------------------------------------------------------- timers
\* setTimeout returns a handle no live timer and no ref holds.
FreshId(used) == CHOOSE i \in 1..(Cardinality(used) + 1) : i \notin used

EagerIds(timers) == { timers[i].id : i \in 1..Len(timers) }

\* clearTimeout(handle) on the 800 ms timers; a null or stale handle clears nothing.
ClearEager(timers, handle) == SelectSeq(timers, LAMBDA t : t.id # handle)

\* clearTimeout(handle) on the Watchdog timers.
ClearSilence(timers, handle) == { t \in timers : t.id # handle }

\* ------------------------------------------------------------ history
\* Timers and Gate requests carry, besides what their closure holds (session,
\* transcript), history fields the code does not have: resumed (a TurnResumed
\* frame arrived while the timer was pending), superseded (a TurnResumed or
\* StartOfTurn frame arrived while the request was in flight) and torn (what
\* tore the session down since the timer or request was made: "no" if nothing,
\* else "watchdog7", "watchdog20", "error", "stop" or "finalize").
Torn(x, s, cause) ==
    IF x.sess = s /\ x.torn = "no" THEN [x EXCEPT !.torn = cause] ELSE x

\* History: the session the socket ref holds is about to be torn down by cause.
Ended(m, cause) ==
    [m EXCEPT
        !.eagerTimers = [i \in 1..Len(m.eagerTimers) |->
                            Torn(m.eagerTimers[i], m.websocketRef, cause)],
        !.gateCalls = { Torn(g, m.websocketRef, cause) : g \in m.gateCalls }]

\* ------------------------------------------------------- subroutines
\* The calls of cleanup as if it sent CloseStream without looking at readyState.
cleanupCallsUnchecked(m) ==
    (IF m.eagerEndTimeoutRef # 0 THEN <<"clearTimeout">> ELSE <<>>)
    \o (IF m.silenceTimeoutRef # 0 THEN <<"clearTimeout">> ELSE <<>>)
    \o (IF m.processorRef # 0 THEN <<"disconnect", "closeContext">> ELSE <<>>)
    \o (IF m.mediaStreamRef # 0 THEN <<"stopTracks">> ELSE <<>>)
    \o (IF m.websocketRef # 0 THEN <<"CloseStream", "close">> ELSE <<>>)

\* The calls cleanup makes, in the order of its statements.  audioContextRef is
\* set and cleared together with processorRef.
cleanupCalls(m) ==
    (IF m.eagerEndTimeoutRef # 0 THEN <<"clearTimeout">> ELSE <<>>)
    \o (IF m.silenceTimeoutRef # 0 THEN <<"clearTimeout">> ELSE <<>>)
    \o (IF m.processorRef # 0 THEN <<"disconnect", "closeContext">> ELSE <<>>)
    \o (IF m.mediaStreamRef # 0 THEN <<"stopTracks">> ELSE <<>>)
    \o (IF m.websocketRef # 0
        THEN (IF m.ws[m.websocketRef] = "OPEN" THEN <<"CloseStream">> ELSE <<>>)
             \o <<"close">>
        ELSE <<>>)

\* cleanup(): clears the two timers the refs hold, disconnects the encoder,
\* stops the microphone tracks, then sends CloseStream and closes the socket.
cleanup(m) ==
    [m EXCEPT
        !.effects = m.effects \o cleanupCalls(m),
        !.eagerTimers = ClearEager(m.eagerTimers, m.eagerEndTimeoutRef),
        !.eagerEndTimeoutRef = 0,
        !.silenceTimers = ClearSilence(m.silenceTimers, m.silenceTimeoutRef),
        !.silenceTimeoutRef = 0,
        !.processorRef = 0,
        !.pc = IF m.processorRef # 0
               THEN [m.pc EXCEPT ![m.processorRef] = "closed"]
               ELSE m.pc,
        !.mediaStreamRef = 0,
        !.ws = IF m.websocketRef # 0
               THEN [m.ws EXCEPT ![m.websocketRef] = "CLOSED"]
               ELSE m.ws,
        !.websocketRef = 0,
        !.isExtendedWait = FALSE]

\* resetSilenceTimer as if it armed the new timer without clearTimeout.
resetSilenceTimerNoClear(m, useExtendedTimeout) ==
    LET id == FreshId({ t.id : t \in m.silenceTimers })
    IN  [m EXCEPT
            !.silenceTimers =
                m.silenceTimers \cup { [id |-> id, extended |-> useExtendedTimeout] },
            !.silenceTimeoutRef = id]

\* resetSilenceTimer(useExtendedTimeout): clears the timer the ref holds and
\* arms a new one with the 20 s or the 7 s deadline.
resetSilenceTimer(m, useExtendedTimeout) ==
    LET kept == ClearSilence(m.silenceTimers, m.silenceTimeoutRef)
        id   == FreshId({ t.id : t \in kept })
    IN  [m EXCEPT
            !.silenceTimers =
                kept \cup { [id |-> id, extended |-> useExtendedTimeout] },
            !.silenceTimeoutRef = id]

\* processTranscript(transcript), up to the fetch it issues.  c names the
\* caller: the session, the origin of the call and the connectionState its
\* closure captured.
processTranscript(m, transcript, c) ==
    IF Trim(transcript) = <<>> \/ m.isProcessingRef
    THEN m
    ELSE [m EXCEPT
            !.isProcessingRef = TRUE,
            !.connectionState = "processing",
            !.finCalls = m.finCalls \cup
                { [sess |-> c.sess, transcript |-> transcript,
                   captured |-> c.captured, phase |-> "sent", by |-> c.by,
                   resumed |-> c.resumed, torn |-> c.torn] },
            !.nPosts[c.sess] = IF m.nPosts[c.sess] = "none" THEN "one" ELSE "more"]

\* checkWaitIntent as if it did not look at isCheckingWaitIntentRef.
GateRejectsBlankOnly(m, transcript) ==
    Trim(transcript) = <<>>

\* checkWaitIntent returns false at once, without a request, for a blank
\* transcript or while another request is in flight.
GateRejects(m, transcript) ==
    Trim(transcript) = <<>> \/ m.isCheckingWaitIntentRef

\* checkWaitIntent(transcript) up to its fetch: the request g is in flight.
checkWaitIntent(m, g) ==
    [m EXCEPT !.isCheckingWaitIntentRef = TRUE,
              !.gateCalls = m.gateCalls \cup {g}]

\* The caller of processTranscript for a candidate g of session g.sess.
Caller(m, g) ==
    [sess |-> g.sess, by |-> g.origin, resumed |-> g.resumed, torn |-> g.torn,
     captured |-> m.closure[g.sess]]

\* The Eager-End timer callback after `await checkWaitIntent`.
eagerDecision(m, g, isWaitIntent) ==
    IF isWaitIntent
    THEN resetSilenceTimer(
            [m EXCEPT !.isExtendedWait = TRUE, !.liveTranscript = <<>>], TRUE)
    ELSE processTranscript(
            [cleanup(Ended(m, "finalize")) EXCEPT !.connectionState = "processing"],
            g.transcript, Caller(m, g))

\* endOfTurnDecision as if resetSilenceTimer were called without `true`.
endOfTurnDecisionShortWait(m, g, isWaitIntent) ==
    IF isWaitIntent
    THEN resetSilenceTimer(
            [m EXCEPT !.isExtendedWait = TRUE, !.liveTranscript = <<>>], FALSE)
    ELSE processTranscript(
            [cleanup(Ended(m, "finalize")) EXCEPT !.connectionState = "processing"],
            g.transcript, Caller(m, g))

\* The EndOfTurn case's `.then` callback.
endOfTurnDecision(m, g, isWaitIntent) ==
    IF isWaitIntent
    THEN resetSilenceTimer(
            [m EXCEPT !.isExtendedWait = TRUE, !.liveTranscript = <<>>], TRUE)
    ELSE processTranscript(
            [cleanup(Ended(m, "finalize")) EXCEPT !.connectionState = "processing"],
            g.transcript, Caller(m, g))

\* A candidate: the transcript a finalization point took from its frame.
Candidate(s, origin, transcript, resumed, torn) ==
    [sess |-> s, origin |-> origin, transcript |-> transcript,
     resumed |-> resumed, superseded |-> FALSE, torn |-> torn]

\* The body of the Eager-End timer callback for the fired timer t.
eagerEndTimeout(m, t) ==
    LET g == Candidate(t.sess, "eager", t.transcript, t.resumed, t.torn)
    IN  IF Truthy(t.transcript) /\ m.websocketRef # 0
        THEN IF GateRejects(m, t.transcript)
             THEN eagerDecision(m, g, FALSE)
             ELSE checkWaitIntent(m, g)
        ELSE m

\* Recordings that may be started with startRecording, one after another.
MaxRecordings == 2

Recordings == 1..MaxRecordings

\* The recorder after its first render.
RecorderInit ==
    /\ isRecording = FALSE
    /\ recordingTime = 0
    /\ isLoading = FALSE
    /\ recorderError = ""
    /\ data = [questionNumber |-> <<>>, audioUrl |-> <<>>]
    /\ mediaRecorderRef = 0
    /\ timerIntervalRef = 0
    /\ intervals = {}
    /\ recorder = [r \in Recordings |-> "none"]
    /\ seen = [r \in Recordings |-> FALSE]
    /\ nRecordings = 0
    /\ responseText = <<>>

Init ==
    /\ RecorderInit
    /\ connectionState = "disconnected"
    /\ error = ""
    /\ liveTranscript = <<>>
    /\ isExtendedWait = FALSE
    /\ audioUrl = "null"
    /\ websocketRef = 0
    /\ mediaStreamRef = 0
    /\ processorRef = 0
    /\ isProcessingRef = FALSE
    /\ isCheckingWaitIntentRef = FALSE
    /\ eagerEndTimeoutRef = 0
    /\ silenceTimeoutRef = 0
    /\ ws = [s \in Sessions |-> "NONE"]
    /\ pc = [s \in Sessions |-> "idle"]
    /\ closure = [s \in Sessions |-> "disconnected"]
    /\ current = 0
    /\ eagerTimers = <<>>
    /\ silenceTimers = {}
    /\ gateCalls = {}
    /\ finCalls = {}
    /\ audioPlaying = FALSE
    /\ effects = <<>>
    /\ received = <<>>
    /\ nPosts = [s \in Sessions |-> "none"]
    /\ nCandidates = 0
    /\ trigger = [kind |-> "none", sess |-> 0, transcript |-> <<>>,
                  isWaitIntent |-> FALSE]

\* ------------------------------------------------------------ actions
\* startListening up to its first await (the click on the orb while the
\* session is neither listening nor disabled).
StartListening(s) ==
    /\ connectionState \in {"disconnected", "responding"}
    /\ s = current + 1
    /\ Set([Cur EXCEPT
            !.current = s,
            !.error = "",
            !.connectionState = "connecting",
            !.liveTranscript = <<>>,
            !.audioUrl = "null",
            !.isExtendedWait = FALSE,
            !.audioPlaying = FALSE,
            !.closure[s] = connectionState,
            !.pc[s] = "await"])
    /\ Trigger("startListening", s, <<>>, FALSE)

\* startListening's catch as if it did not set the state.
StartFailedKeepsState(s, cause) ==
    /\ pc[s] = "await"
    /\ Set(cleanup(Ended([Cur EXCEPT !.error = cause, !.pc[s] = "done"], "error")))
    /\ Trigger("startFailed", s, <<>>, FALSE)

\* startListening's catch: the token request or getUserMedia failed.
StartFailed(s, cause) ==
    /\ pc[s] = "await"
    /\ Set([cleanup(Ended([Cur EXCEPT !.error = cause, !.pc[s] = "done"], "error"))
            EXCEPT !.connectionState = "disconnected"])
    /\ Trigger("startFailed", s, <<>>, FALSE)

\* startListening after its awaits: the microphone is held and the socket made.
StartConnect(s) ==
    /\ pc[s] = "await"
    /\ Set([Cur EXCEPT
            !.mediaStreamRef = s,
            !.websocketRef = s,
            !.ws[s] = "CONNECTING",
            !.pc[s] = "done"])
    /\ Trigger("startConnect", s, <<>>, FALSE)

\* ws.onopen
WsOpen(s) ==
    /\ ws[s] = "CONNECTING"
    /\ Set(resetSilenceTimer(
            [Cur EXCEPT !.ws[s] = "OPEN",
                        !.connectionState = "connected",
                        !.processorRef = s,
                        !.pc[s] = "open"], FALSE))
    /\ Trigger("onopen", s, <<>>, FALSE)

\* A TurnInfo frame reaches ws.onmessage only while the socket is open.
Delivered(s, transcript) ==
    /\ ws[s] = "OPEN"
    /\ transcript \in Transcripts

\* The part of ws.onmessage every TurnInfo frame runs before the switch.
TurnInfo(m, transcript) ==
    [m EXCEPT !.liveTranscript =
                  IF Truthy(transcript) THEN transcript ELSE m.liveTranscript]

\* History: one more finalization point.
Counted(m) == [m EXCEPT !.nCandidates = m.nCandidates + 1]

\* History: the candidates a TurnResumed / StartOfTurn frame retracts.
MarkTimers(timers, s) ==
    [i \in 1..Len(timers) |->
        IF timers[i].sess = s THEN [timers[i] EXCEPT !.resumed = TRUE]
        ELSE timers[i]]

MarkCalls(calls, s) ==
    { IF g.sess = s /\ g.origin = "eager" THEN [g EXCEPT !.superseded = TRUE] ELSE g
      : g \in calls }

Resumed(m, s) ==
    [m EXCEPT !.eagerTimers = MarkTimers(m.eagerTimers, s),
              !.gateCalls = MarkCalls(m.gateCalls, s)]

Restarted(m, s) == [m EXCEPT !.gateCalls = MarkCalls(m.gateCalls, s)]

\* case "StartOfTurn"
StartOfTurn(s, transcript) ==
    /\ Delivered(s, transcript)
    /\ LET m0 == Restarted(TurnInfo(Cur, transcript), s)
           m1 == resetSilenceTimer([m0 EXCEPT !.isExtendedWait = FALSE], FALSE)
       IN  Set([m1 EXCEPT
                !.eagerTimers = ClearEager(m1.eagerTimers, m1.eagerEndTimeoutRef),
                !.eagerEndTimeoutRef = 0])
    /\ Trigger("StartOfTurn", s, transcript, FALSE)

\* case "Update" as if it reset the silence timer whatever the transcript.
UpdateAlwaysRearms(s, transcript) ==
    /\ Delivered(s, transcript)
    /\ Set(resetSilenceTimer(TurnInfo(Cur, transcript), FALSE))
    /\ Trigger("Update", s, transcript, FALSE)

\* case "Update"
Update(s, transcript) ==
    /\ Delivered(s, transcript)
    /\ LET m0 == TurnInfo(Cur, transcript)
       IN  Set(IF Truthy(transcript) THEN resetSilenceTimer(m0, FALSE) ELSE m0)
    /\ Trigger("Update", s, transcript, FALSE)

\* case "EagerEndOfTurn"
EagerEndOfTurn(s, transcript) ==
    /\ Delivered(s, transcript)
    /\ nCandidates < MaxCandidates
    /\ LET m0 == Counted(TurnInfo(Cur, transcript))
           id == FreshId(EagerIds(m0.eagerTimers))
       IN  Set([m0 EXCEPT
                !.eagerTimers = Append(m0.eagerTimers,
                    [id |-> id, sess |-> s, transcript |-> transcript,
                     resumed |-> FALSE, torn |-> "no"]),
                !.eagerEndTimeoutRef = id])
    /\ Trigger("EagerEndOfTurn", s, transcript, FALSE)

\* case "TurnResumed"
TurnResumed(s, transcript) ==
    /\ Delivered(s, transcript)
    /\ LET m0 == Resumed(TurnInfo(Cur, transcript), s)
           m1 == resetSilenceTimer(m0, FALSE)
       IN  Set([m1 EXCEPT
                !.eagerTimers = ClearEager(m1.eagerTimers, m1.eagerEndTimeoutRef),
                !.eagerEndTimeoutRef = 0])
    /\ Trigger("TurnResumed", s, transcript, FALSE)

\* case "EndOfTurn"
EndOfTurn(s, transcript) ==
    /\ Delivered(s, transcript)
    /\ nCandidates < MaxCandidates
    /\ LET m0 == Counted(TurnInfo(Cur, transcript))
           m1 == [m0 EXCEPT
                    !.eagerTimers = ClearEager(m0.eagerTimers, m0.eagerEndTimeoutRef),
                    !.eagerEndTimeoutRef = 0]
           g  == Candidate(s, "eot", transcript, FALSE, "no")
       IN  Set(IF Truthy(transcript)
               THEN IF GateRejects(m1, transcript)
                    THEN endOfTurnDecision(m1, g, FALSE)
                    ELSE checkWaitIntent(m1, g)
               ELSE m1)
    /\ Trigger("EndOfTurn", s, transcript, FALSE)

\* The oldest pending 800 ms timer fires (equal delays fire in creation order).
EagerTimerFires ==
    /\ eagerTimers # <<>>
    /\ Set(eagerEndTimeout([Cur EXCEPT !.eagerTimers = Tail(eagerTimers)],
                           Head(eagerTimers)))
    /\ Trigger("eagerEndTimeout", Head(eagerTimers).sess, Head(eagerTimers).transcript, FALSE)

\* What the fetch of checkWaitIntent can settle with: the request failed
\* ("failed"), a non-OK status ("notOk"), or a 200 reply whose JSON has no
\* isWaitIntent field ("absent"), the boolean false or true, or a truthy value
\* that is not the boolean true ("truthy").
GateReplies == {"failed", "notOk", "absent", "false", "truthy", "true"}

\* checkWaitIntent as if it had no catch and tested `data.isWaitIntent` for
\* truthiness.
waitIntentResultLoose(reply) ==
    CASE reply = "failed" -> "throws"
      [] reply \in {"true", "truthy"} -> "true"
      [] OTHER -> "false"

\* What checkWaitIntent returns for a reply: the catch turns a failed request
\* into false, `!response.ok` gives false, and `data.isWaitIntent === true`
\* gives true for the boolean true only.
waitIntentResult(reply) ==
    CASE reply = "failed" -> "false"
      [] reply = "notOk" -> "false"
      [] reply = "true" -> "true"
      [] OTHER -> "false"

\* checkWaitIntent's fetch settles with reply, its `finally` resets the flag,
\* and the caller's continuation runs with the result (none runs if it threw).
GateResolves(g, reply) ==
    /\ g \in gateCalls
    /\ LET result == waitIntentResult(reply)
           m0 == [Cur EXCEPT !.gateCalls = gateCalls \ {g},
                             !.isCheckingWaitIntentRef = FALSE,
                             !.received = <<reply>>]
       IN  /\ Set(CASE result = "throws" -> [m0 EXCEPT !.effects = <<"throw">>]
                    [] g.origin = "eager" /\ result # "throws" ->
                         eagerDecision(m0, g, result = "true")
                    [] OTHER -> endOfTurnDecision(m0, g, result = "true"))
           /\ Trigger(IF g.origin = "eager" THEN "eagerDecision"
                                            ELSE "endOfTurnDecision",
                      g.sess, g.transcript, result = "true")

\* The Watchdog callback armed by resetSilenceTimer.
SilenceTimerFires(t) ==
    /\ t \in silenceTimers
    /\ Set([cleanup(Ended([Cur EXCEPT !.silenceTimers = silenceTimers \ {t}],
                          IF t.extended THEN "watchdog20" ELSE "watchdog7"))
            EXCEPT !.connectionState = "disconnected",
                   !.isExtendedWait = FALSE])
    /\ Trigger("silenceTimeout", 0, <<>>, FALSE)

\* An {type: "Error"} frame in ws.onmessage.
ErrorFrame(s) ==
    /\ ws[s] = "OPEN"
    /\ Set([cleanup(Ended([Cur EXCEPT !.error = "deepgram"], "error"))
            EXCEPT !.connectionState = "disconnected"])
    /\ Trigger("Error", s, <<>>, FALSE)

\* ws.onerror: the transport failed.
WsError(s) ==
    /\ ws[s] \in {"CONNECTING", "OPEN"}
    /\ Set([cleanup(Ended([Cur EXCEPT !.error = "connection"], "error"))
            EXCEPT !.connectionState = "disconnected",
                   !.ws[s] = "CLOSED"])
    /\ Trigger("onerror", s, <<>>, FALSE)

\* ws.onclose after the peer closed the socket.
WsClose(s) ==
    /\ ws[s] = "OPEN"
    /\ Set([Cur EXCEPT
            !.ws[s] = "CLOSED",
            !.connectionState =
                IF closure[s] = "connected" THEN "disconnected" ELSE connectionState])
    /\ Trigger("onclose", s, <<>>, FALSE)

\* stopListening (the click on the orb while listening).
StopListening ==
    /\ connectionState = "connected"
    /\ LET m0 == cleanup(Ended(Cur, "stop"))
           c  == [sess |-> current, by |-> "stop", resumed |-> FALSE,
                  torn |-> "no", captured |-> "connected"]
       IN  Set(IF Trim(liveTranscript) # <<>>
               THEN processTranscript(m0, liveTranscript, c)
               ELSE [m0 EXCEPT !.connectionState = "disconnected"])
    /\ Trigger("stopListening", 0, liveTranscript, FALSE)

\* processTranscript's `finally`.
processFinally(m, f) ==
    [m EXCEPT
        !.finCalls = m.finCalls \ {f},
        !.isProcessingRef = FALSE,
        !.connectionState =
            IF f.captured = "processing" THEN "disconnected" ELSE m.connectionState]

\* The stream of the process-stream route as if it enqueued the done frame in
\* a finally.
startAlwaysDone(geminiOk) ==
    <<"processing">> \o (IF geminiOk THEN <<"result">> ELSE <<"error">>) \o <<"done">>

\* ReadableStream.start of the process-stream route: the types of the frames
\* it enqueues before it closes the stream.  geminiOk: generateContent
\* returned (an answer that does not parse gives questionNumber -1, no throw).
start(geminiOk) ==
    <<"processing">> \o (IF geminiOk THEN <<"result", "done">> ELSE <<"error">>)

\* The position of the first frame of a type in a stream, 0 if there is none.
IndexOf(frames, type) ==
    IF \E i \in DOMAIN frames : frames[i] = type
    THEN CHOOSE i \in DOMAIN frames :
            frames[i] = type /\ \A j \in 1..(i - 1) : frames[j] # type
    ELSE 0

\* The reader loop reaches the "result" frame of the response stream: hasAudio
\* is audioUrl # null.
FinalizerResult(f, hasAudio) ==
    /\ f \in finCalls
    /\ f.phase = "sent"
    /\ IndexOf(start(TRUE), "result") > 0
    /\ Set([Cur EXCEPT
            !.finCalls = (finCalls \ {f}) \cup {[f EXCEPT !.phase = "result"]},
            !.audioUrl = IF hasAudio THEN "url" ELSE "null",
            !.connectionState = "responding",
            !.audioPlaying = IF hasAudio THEN TRUE ELSE audioPlaying,
            !.received = SubSeq(start(TRUE), 1, IndexOf(start(TRUE), "result"))])
    /\ Trigger("result", f.sess, f.transcript, FALSE)

\* The response stream ends after its result.
FinalizerDone(f) ==
    /\ f \in finCalls
    /\ f.phase = "result"
    /\ Set(processFinally([Cur EXCEPT !.received = start(TRUE)], f))
    /\ Trigger("done", f.sess, f.transcript, FALSE)

\* The request fails: a non-OK status (a rejected fetch and a missing body
\* take the same catch), or a stream with an "error" frame and no result.
FinalizerFails(f) ==
    /\ f \in finCalls
    /\ f.phase = "sent"
    /\ \E failure \in {"notOk", "stream"} :
        /\ failure = "stream" => IndexOf(start(FALSE), "result") = 0
        /\ Set(processFinally(
                [Cur EXCEPT !.error = "finalizer",
                            !.received = IF failure = "stream" THEN start(FALSE)
                                         ELSE <<>>], f))
    /\ Trigger("failed", f.sess, f.transcript, FALSE)

\* processor.onaudioprocess as if it sent without looking at readyState: send
\* throws on a null ref and on a socket that is still connecting.
onaudioprocessUnchecked(m) ==
    [m EXCEPT !.effects =
        IF m.websocketRef = 0 \/ m.ws[m.websocketRef] = "CONNECTING"
        THEN <<"throw">>
        ELSE <<"sendAudio">>]

\* processor.onaudioprocess: the frame is encoded and sent if the socket the
\* ref holds is open, and dropped otherwise.
onaudioprocess(m) ==
    [m EXCEPT !.effects =
        IF m.websocketRef # 0 /\ m.ws[m.websocketRef] = "OPEN"
        THEN <<"sendAudio">>
        ELSE <<>>]

\* The processor of session s delivers a captured frame: while it runs, or as
\* an event that was queued when cleanup disconnected it.  cleanup leaves the
\* socket ref null, and a queued event is delivered before a socket created
\* after it can have opened.
AudioProcess(s) ==
    /\ \/ pc[s] = "open"
       \/ /\ pc[s] = "closed"
          /\ websocketRef # 0 => ws[websocketRef] # "OPEN"
    /\ Set(onaudioprocess(Cur))
    /\ Trigger("onaudioprocess", s, <<>>, FALSE)

\* handleAudioEnded: the hidden audio element played to its end.
AudioEnded ==
    /\ audioPlaying
    /\ Set([Cur EXCEPT !.audioPlaying = FALSE,
                       !.connectionState = "disconnected"])
    /\ Trigger("ended", 0, <<>>, FALSE)

Next ==
    \/ \E s \in Sessions : StartListening(s)
    \/ \E s \in Sessions, cause \in {"token", "microphone"} : StartFailed(s, cause)
    \/ \E s \in Sessions : StartConnect(s)
    \/ \E s \in Sessions : WsOpen(s)
    \/ \E s \in Sessions, t \in Transcripts : StartOfTurn(s, t)
    \/ \E s \in Sessions, t \in Transcripts : Update(s, t)
    \/ \E s \in Sessions, t \in Transcripts : EagerEndOfTurn(s, t)
    \/ \E s \in Sessions, t \in Transcripts : TurnResumed(s, t)
    \/ \E s \in Sessions, t \in Transcripts : EndOfTurn(s, t)
    \/ EagerTimerFires
    \/ \E g \in gateCalls, r \in GateReplies : GateResolves(g, r)
    \/ \E t \in silenceTimers : SilenceTimerFires(t)
    \/ \E s \in Sessions : ErrorFrame(s)
    \/ \E s \in Sessions : WsError(s)
    \/ \E s \in Sessions : WsClose(s)
    \/ StopListening
    \/ \E f \in finCalls, a \in BOOLEAN : FinalizerResult(f, a)
    \/ \E f \in finCalls : FinalizerDone(f)
    \/ \E f \in finCalls : FinalizerFails(f)
    \/ AudioEnded
    \/ \E s \in Sessions : AudioProcess(s)

Spec == Init /\ [][Next]_vars

\* What the browser and the network do on their own: a pending timer fires, a
\* request settles, a connection attempt ends one way or the other, a started
\* playback ends.  Frames, errors, the peer's close and the user's clicks may
\* or may not come.
Progress ==
    \/ EagerTimerFires
    \/ \E t \in silenceTimers : SilenceTimerFires(t)
    \/ \E g \in gateCalls, r \in GateReplies : GateResolves(g, r)
    \/ \E f \in finCalls :
          \/ FinalizerDone(f)
          \/ FinalizerFails(f)
          \/ \E a \in BOOLEAN : FinalizerResult(f, a)
    \/ \E s \in Sessions :
          \/ StartConnect(s)
          \/ \E cause \in {"token", "microphone"} : StartFailed(s, cause)
    \/ \E s \in Sessions : ws[s] = "CONNECTING" /\ (WsOpen(s) \/ WsError(s))
    \/ AudioEnded

\* Only finitely many Progress steps can be taken (sessions and candidates are
\* bounded), so fairness of the disjunction is fairness of each disjunct.
Fairness == WF_vars(Progress)

FairSpec == Spec /\ Fairness

\* ------------------------------------------------- classifier replies
\* Pieces a reply text is made of, at most.
MaxPieces == 2

QuestionNumbers == -1..7

\* The text of a classifier reply is a sequence of pieces: prose without braces
\* ("text"), a JSON object ("object") whose questionNumber field is absent
\* (<<>>) or a number, or a brace group that is not JSON ("braces").
Pieces ==
    { [kind |-> "text", questionNumber |-> <<>>],
      [kind |-> "braces", questionNumber |-> <<>>] }
    \cup { [kind |-> "object", questionNumber |-> q] :
            q \in {<<>>} \cup { <<n>> : n \in QuestionNumbers } }

Replies == UNION { [1..n -> Pieces] : n \in 0..MaxPieces }

\* responseText.match(/\{[\s\S]*\}/): the text from the first "{" to the last
\* "}" of the reply, <<>> (null) if it has no brace group.
jsonMatch(text) ==
    LET braced == { i \in DOMAIN text : text[i].kind # "text" }
        first  == CHOOSE i \in braced : \A j \in braced : i <= j
        last   == CHOOSE i \in braced : \A j \in braced : j <= i
    IN  IF braced = {} THEN <<>> ELSE SubSeq(text, first, last)

\* JSON.parse(jsonMatch[0]) returns only if the matched text is one JSON
\* object, and throws otherwise.
Parses(text) == Len(text) = 1 /\ text[1].kind = "object"

\* The questionNumber of a route for the reply: -1 unless the match parses,
\* then `parsed.questionNumber || -1` (an absent field and 0 are falsy).
questionNumberOf(text) ==
    LET m == jsonMatch(text)
    IN  IF m # <<>> /\ Parses(m)
        THEN IF m[1].questionNumber # <<>> /\ m[1].questionNumber[1] # 0
             THEN m[1].questionNumber[1]
             ELSE -1
        ELSE -1

Digit == <<"0", "1", "2", "3", "4", "5", "6", "7", "8", "9">>

\* The decimal text of an integer, as a template literal renders it.
RECURSIVE String(_)
String(n) ==
    IF n < 0 THEN <<"-">> \o String(-n)
    ELSE IF n < 10 THEN <<Digit[n + 1]>>
    ELSE String(n \div 10) \o <<Digit[(n % 10) + 1]>>

\* The audioUrl of a route for a questionNumber; <<>> is null.
audioUrlOf(questionNumber) ==
    IF questionNumber >= 1 /\ questionNumber <= 6
    THEN <<"/">> \o String(questionNumber) \o <<"question.mp3">>
    ELSE <<>>

\* The body a route answers with for the classifier reply text.
POST(text) ==
    [questionNumber |-> <<questionNumberOf(text)>>,
     audioUrl |-> audioUrlOf(questionNumberOf(text))]

\* ------------------------------------------------- one-shot recorder
MAX_RECORDING_TIME_SECONDS == 60

\* The recorder's state as one record; no reply has been read in this step.
Rec ==
    [ isRecording |-> isRecording, recordingTime |-> recordingTime,
      isLoading |-> isLoading, recorderError |-> recorderError, data |-> data,
      mediaRecorderRef |-> mediaRecorderRef,
      timerIntervalRef |-> timerIntervalRef, intervals |-> intervals,
      recorder |-> recorder, seen |-> seen, nRecordings |-> nRecordings,
      responseText |-> <<>> ]

\* Assigns the recorder's state m.
SetRec(m) ==
    /\ isRecording' = m.isRecording
    /\ recordingTime' = m.recordingTime
    /\ isLoading' = m.isLoading
    /\ recorderError' = m.recorderError
    /\ data' = m.data
    /\ mediaRecorderRef' = m.mediaRecorderRef
    /\ timerIntervalRef' = m.timerIntervalRef
    /\ intervals' = m.intervals
    /\ recorder' = m.recorder
    /\ seen' = m.seen
    /\ nRecordings' = m.nRecordings
    /\ responseText' = m.responseText
    /\ UNCHANGED streamVars

\* stopRecording() as run by a closure that sees isRecordingSeen: it stops the
\* MediaRecorder of the ref and clears the interval of the ref, or does nothing.
stopRecording(m, isRecordingSeen) ==
    IF m.mediaRecorderRef # 0 /\ isRecordingSeen
           /\ m.recorder[m.mediaRecorderRef] = "recording"
    THEN [m EXCEPT !.recorder[m.mediaRecorderRef] = "stopping",
                   !.isRecording = FALSE,
                   !.intervals = m.intervals \ {m.timerIntervalRef},
                   !.timerIntervalRef = 0]
    ELSE m

\* The click on "Start Recording" (shown while not recording, disabled while
\* loading): startRecording up to `await getUserMedia`.
StartRecording(r) ==
    /\ ~isRecording
    /\ ~isLoading
    /\ r = nRecordings + 1
    /\ SetRec([Rec EXCEPT !.nRecordings = r,
                          !.seen[r] = isRecording,
                          !.recorder[r] = "asking"])

\* startRecording after getUserMedia: the MediaRecorder is started and the
\* one-second interval is set.
Recording(r) ==
    /\ recorder[r] = "asking"
    /\ SetRec([Rec EXCEPT !.mediaRecorderRef = r,
                          !.recorder[r] = "recording",
                          !.isRecording = TRUE,
                          !.recordingTime = 0,
                          !.recorderError = "",
                          !.timerIntervalRef = r,
                          !.intervals = intervals \cup {r}])

\* startRecording's catch: getUserMedia was refused.
RecordingDenied(r) ==
    /\ recorder[r] = "asking"
    /\ SetRec([Rec EXCEPT !.recorder[r] = "denied",
                          !.recorderError = "microphone"])

\* The interval callback of recording r: the updater of setRecordingTime, which
\* calls the stopRecording of the render startRecording was called in.
Tick(r) ==
    /\ r \in intervals
    /\ LET newTime == recordingTime + 1
       IN  SetRec(IF newTime >= MAX_RECORDING_TIME_SECONDS
                  THEN [stopRecording(Rec, seen[r])
                            EXCEPT !.recordingTime = MAX_RECORDING_TIME_SECONDS]
                  ELSE [Rec EXCEPT !.recordingTime = newTime])

\* The click on "Stop Recording" (shown while recording).
StopRecording ==
    /\ isRecording
    /\ SetRec(stopRecording(Rec, isRecording))

\* mediaRecorder.onstop up to the fetch of transcribeAudio.
OnStop(r) ==
    /\ recorder[r] = "stopping"
    /\ SetRec([Rec EXCEPT !.recorder[r] = "transcribing",
                          !.isLoading = TRUE,
                          !.recorderError = "",
                          !.data = [questionNumber |-> <<>>, audioUrl |-> <<>>]])

\* The rest of onstop after `await transcribeAudio`: its finally, then the
\* interval of the ref is cleared.
Transcribed(m, r) ==
    [m EXCEPT !.recorder[r] = "finished",
              !.isLoading = FALSE,
              !.intervals = m.intervals \ {m.timerIntervalRef},
              !.timerIntervalRef = 0]

\* /api/transcribe answers with an error status.
TranscribeFails(r) ==
    /\ recorder[r] = "transcribing"
    /\ SetRec(Transcribed([Rec EXCEPT !.recorderError = "transcribe"], r))

\* /api/transcribe heard nothing: it answers questionNumber -1 and no audioUrl
\* without asking the classifier.
TranscribeBlank(r) ==
    /\ recorder[r] = "transcribing"
    /\ SetRec(Transcribed(
            [Rec EXCEPT !.data = [questionNumber |-> <<-1>>, audioUrl |-> <<>>]], r))

\* /api/transcribe answers with what it made of the classifier's reply.
TranscribeReplies(r, reply) ==
    /\ recorder[r] = "transcribing"
    /\ SetRec(Transcribed([Rec EXCEPT !.data = POST(reply),
                                      !.responseText = <<reply>>], r))

RecorderNext ==
    \/ \E r \in Recordings : StartRecording(r)
    \/ \E r \in Recordings : Recording(r)
    \/ \E r \in Recordings : RecordingDenied(r)
    \/ \E r \in Recordings : Tick(r)
    \/ StopRecording
    \/ \E r \in Recordings : OnStop(r)
    \/ \E r \in Recordings : TranscribeFails(r)
    \/ \E r \in Recordings : TranscribeBlank(r)
    \/ \E r \in Recordings, reply \in Replies : TranscribeReplies(r, reply)

RecorderSpec == Init /\ [][RecorderNext]_vars

\* ------------------------------------------------------------- claims
FrameKinds == {"StartOfTurn", "Update", "EagerEndOfTurn", "TurnResumed", "EndOfTurn"}

DecisionKinds == {"eagerDecision", "endOfTurnDecision"}

\* C1: over any interleaving of frames, timer firings, Gate resolutions and
\* user stops, a session issues POST /api/process-stream at most once.
C1_FinalizerAtMostOnce == \A s \in Sessions : nPosts[s] # "more"

\* C2: a candidate whose EagerEndOfTurn frame was followed by a TurnResumed
\* frame before its timer fired never gets a Gate request or a Finalizer call.
C2_NoCallForResumedCandidate ==
    /\ \A g \in gateCalls : ~g.resumed
    /\ \A f \in finCalls : ~f.resumed

\* C3: when a TurnResumed or StartOfTurn frame arrived while the Gate request of
\* a fired Eager-End timer was unresolved, the resolution changes nothing: no
\* teardown, no transition, no Finalizer call, no wait extension.
C3_SupersededGateResultDiscarded ==
    [][\A g \in gateCalls :
        (trigger'.kind = "eagerDecision" /\ g.superseded)
        => /\ connectionState' = connectionState
           /\ ws' = ws
           /\ nPosts' = nPosts
           /\ isExtendedWait' = isExtendedWait
           /\ silenceTimers' = silenceTimers]_vars

\* C10: at most one Eager-End confirmation timer is pending in every state.
C10_AtMostOneEagerTimer == Len(eagerTimers) <= 1

\* C4: after a teardown no timer of the torn-down session is pending, and a
\* Gate request that was in flight at the teardown resolves without effect: no
\* state change, no Watchdog armed, no Finalizer call.
C4_TeardownCancelsEverything ==
    [][/\ \A i \in 1..Len(eagerTimers') : eagerTimers'[i].torn = "no"
       /\ \A g \in gateCalls :
            (trigger'.kind \in DecisionKinds /\ g.torn # "no")
            => /\ connectionState' = connectionState
               /\ isExtendedWait' = isExtendedWait
               /\ liveTranscript' = liveTranscript
               /\ ws' = ws
               /\ silenceTimers' = silenceTimers
               /\ nPosts' = nPosts]_vars

\* C5: when the 7 s Watchdog fires the state becomes disconnected, and no
\* Finalizer call is made afterwards for the session it tore down, whatever
\* timer or Gate request was outstanding.
C5_WatchdogEndsWithoutFinalize ==
    [][/\ (trigger'.kind = "silenceTimeout" /\ \E t \in silenceTimers : ~t.extended)
          => connectionState' = "disconnected"
       /\ \A f \in finCalls' : f.torn # "watchdog7"]_vars

\* C7: when the Gate returns "wait", at the eager or the definitive point, the
\* displayed transcript is cleared, extendedWait is set, the one pending
\* Watchdog timer is the 20 s one, the connection state is left as it was
\* (connected stays connected) and no Finalizer call is made.
C7_WaitExtends ==
    [][(trigger'.kind \in DecisionKinds /\ trigger'.isWaitIntent)
        => /\ liveTranscript' = <<>>
           /\ isExtendedWait'
           /\ silenceTimers' = { [id |-> silenceTimeoutRef', extended |-> TRUE] }
           /\ connectionState' = connectionState
           /\ nPosts' = nPosts
           /\ finCalls' = finCalls]_vars

\* C7 happens: a "wait" reply has just extended a listening session.
C7_Witness ==
    /\ trigger.kind \in DecisionKinds
    /\ trigger.isWaitIntent
    /\ connectionState = "connected"
    /\ isExtendedWait
    /\ \E t \in silenceTimers : t.extended

\* The session is handed to the Finalizer with transcript t by this step.
Finalized(s, t) ==
    /\ connectionState' = "processing"
    /\ nPosts[s] = "none"
    /\ nPosts'[s] = "one"
    /\ \E f \in finCalls' : f \notin finCalls /\ f.sess = s /\ f.transcript = t

\* C8: an EndOfTurn frame with a non-empty transcript that arrives in state
\* connected and gets "not wait" from the Gate (at once, or when its request
\* resolves with the state still connected) moves the state to processing
\* and calls the Finalizer exactly once, with that frame's transcript.
C8_EndOfTurnFinalizes ==
    [][/\ ( /\ trigger'.kind = "EndOfTurn"
            /\ Truthy(trigger'.transcript)
            /\ connectionState = "connected"
            /\ GateRejects(Cur, trigger'.transcript) )
          => Finalized(trigger'.sess, trigger'.transcript)
       /\ ( /\ trigger'.kind = "endOfTurnDecision"
            /\ ~trigger'.isWaitIntent
            /\ connectionState = "connected" )
          => Finalized(trigger'.sess, trigger'.transcript)]_vars

\* C9: once a session has called the Finalizer, no frame, Eager-End timer,
\* Watchdog or Gate resolution of that session changes the connection state
\* or produces another Finalizer call.
C9_NothingAfterFinalize ==
    [][\A s \in Sessions :
        ( /\ nPosts[s] # "none"
          /\ \/ trigger'.sess = s /\ trigger'.kind \in
                    FrameKinds \cup DecisionKinds \cup {"eagerEndTimeout"}
             \/ trigger'.kind = "silenceTimeout" /\ current = s )
        => /\ connectionState' = connectionState
           /\ nPosts'[s] = nPosts[s]]_vars

\* C6: a session that gets no inbound frame after its socket opened reaches
\* disconnected, with no Finalizer call made for it.
C6_SilentSessionTimesOut ==
    \A s \in Sessions :
        [](  (trigger.kind = "onopen" /\ trigger.sess = s)
             => <>( \/ trigger.sess = s /\ trigger.kind \in FrameKinds \cup {"Error"}
                    \/ connectionState = "disconnected" /\ nPosts[s] = "none" ))

\* C11: at most one Watchdog timer is pending, and it is the one the ref
\* holds: an arming cancels the timer armed before, which therefore never fires.
C11_AtMostOneWatchdog ==
    /\ Cardinality(silenceTimers) <= 1
    /\ \A t \in silenceTimers : t.id = silenceTimeoutRef

\* C11 happens: a frame has just re-armed the Watchdog armed at onopen.
C11_Witness ==
    /\ trigger.kind \in {"StartOfTurn", "Update", "TurnResumed"}
    /\ Truthy(trigger.transcript)
    /\ Cardinality(silenceTimers) = 1

\* C12: whenever the pending Watchdog timer has the 20 s deadline,
\* extendedWait is set, also after a teardown and after a new start.
C12_ExtendedDeadlineOnlyInExtendedWait ==
    \A t \in silenceTimers : t.extended => isExtendedWait

\* In the calls of the last handler every call a comes before every call b.
Before(a, b) ==
    \A i, j \in DOMAIN effects : (effects[i] = a /\ effects[j] = b) => i < j

\* C13: a teardown cancels the timers, then stops the outbound audio, then
\* signals the transport close (CloseStream, close), then releases the
\* microphone; the microphone is never released before the close was signalled.
C13_TeardownOrder ==
    /\ Before("clearTimeout", "disconnect")
    /\ Before("disconnect", "CloseStream")
    /\ Before("closeContext", "close")
    /\ Before("CloseStream", "close")
    /\ Before("CloseStream", "stopTracks")
    /\ Before("close", "stopTracks")

\* C14: a captured frame is sent only on an open transport; a frame that
\* arrives while the socket is not open yet, after the peer closed it or after
\* the teardown of its session is dropped, and the handler does not throw.
C14_AudioOnlyWhileOpen ==
    [][trigger'.kind = "onaudioprocess"
        => LET calls == { effects'[i] : i \in DOMAIN effects' }
           IN  /\ "throw" \notin calls
               /\ "sendAudio" \in calls
                    => websocketRef # 0 /\ ws[websocketRef] = "OPEN"
               /\ pc[trigger'.sess] = "closed" => effects' = <<>>
               /\ (websocketRef = trigger'.sess /\ ws[websocketRef] # "OPEN")
                    => effects' = <<>>]_vars

\* C14 happens: a frame of a torn-down session was dropped while the socket of
\* the next session is connecting.
C14_Witness ==
    /\ trigger.kind = "onaudioprocess"
    /\ pc[trigger.sess] = "closed"
    /\ websocketRef # 0
    /\ ws[websocketRef] = "CONNECTING"
    /\ effects = <<>>

\* C15: the Gate resolves to a boolean and does not throw, and it resolves to
\* true only for a reply whose isWaitIntent is the boolean true: a failed
\* request, a non-OK status, an absent or a merely truthy field give false.
C15_GateFailsSafe ==
    [][trigger'.kind \in DecisionKinds
        => /\ "throw" \notin { effects'[i] : i \in DOMAIN effects' }
           /\ trigger'.isWaitIntent \in BOOLEAN
           /\ trigger'.isWaitIntent <=> (received' = <<"true">>)
           /\ received' # <<"true">> => ~isExtendedWait' \/ isExtendedWait]_vars

\* C15 happens: a Gate request of a listening session failed and the candidate
\* was finalized as "not a wait request".
C15_Witness ==
    /\ trigger.kind \in DecisionKinds
    /\ received \in { <<"failed">>, <<"notOk">>, <<"absent">>, <<"truthy">> }
    /\ ~trigger.isWaitIntent
    /\ connectionState = "processing"
    /\ nPosts[trigger.sess] = "one"

\* C16: at most one Gate request is in flight; a finalization point that comes
\* while one is in flight issues no request of its own (it is answered "not a
\* wait request" at once, nothing is kept for later).
C16_OneGateRequestInFlight ==
    [][/\ Cardinality(gateCalls') <= 1
       /\ (gateCalls # {} /\ trigger'.kind \in {"EndOfTurn", "eagerEndTimeout"})
            => Cardinality(gateCalls') = Cardinality(gateCalls)]_vars

\* C16 happens: an EndOfTurn candidate was finalized at once while the request
\* of an earlier candidate is still in flight.
C16_Witness ==
    /\ trigger.kind = "EndOfTurn"
    /\ Trim(trigger.transcript) # <<>>
    /\ connectionState = "processing"
    /\ Cardinality(gateCalls) = 1

\* C17: an Error frame or a transport error, in whatever state, tears the
\* session down (no timer left pending, socket and microphone released), sets
\* the state to disconnected, surfaces the error, and starts no reconnection.
C17_ErrorTearsDown ==
    [][trigger'.kind \in {"Error", "onerror"}
        => /\ connectionState' = "disconnected"
           /\ error' # ""
           /\ silenceTimers' = {}
           /\ eagerTimers' = <<>>
           /\ ws'[trigger'.sess] = "CLOSED"
           /\ websocketRef' = 0
           /\ mediaStreamRef' = 0
           /\ \A s \in Sessions : ws'[s] # "CONNECTING" /\ pc'[s] # "await"]_vars

\* C18: when the Finalizer call fails (non-OK status, no body, thrown fetch,
\* error frame) the error is surfaced and the state ends up disconnected.
C18_FinalizerFailureDisconnects ==
    [][trigger'.kind = "failed"
        => error' # "" /\ connectionState' = "disconnected"]_vars

\* A response stream as the boundary describes it: processing frames, one
\* result, then done; or processing frames ended by error; nothing after
\* done or error.
WellFormedStream(frames) ==
    LET n == Len(frames)
    IN  /\ n >= 1
        /\ frames[n] \in {"done", "error"}
        /\ \A i \in 1..(n - 1) : frames[i] \notin {"done", "error"}
        /\ frames[n] = "done"
            => /\ n >= 3
               /\ frames[n - 1] = "result"
               /\ \A i \in 1..(n - 2) : frames[i] = "processing"
        /\ frames[n] = "error"
            => \A i \in 1..(n - 1) : frames[i] = "processing"

\* C20: every response stream of the Finalizer for a non-blank transcript is
\* processing frames, one result and done, or on failure ends with an error
\* frame and has no result and no done.
C20_StreamShape ==
    (trigger.kind \in {"done", "failed"} /\ received # <<>>)
        => WellFormedStream(received)

\* C20 happens: a stream was read to its end after its result.
C20_Witness ==
    /\ trigger.kind = "done"
    /\ Len(received) = 3
    /\ received[2] = "result"

\* C19: when getUserMedia is refused the error is surfaced, and the connection
\* state did not take the value connecting during that start attempt.
C19_MicDeniedNeverConnecting ==
    [][(trigger'.kind = "startFailed" /\ error' = "microphone")
        => connectionState # "connecting"]_vars

\* C19, amended: startListening sets the state to connecting before it asks
\* for the token and the microphone; when getUserMedia is refused its catch
\* surfaces the error and leaves the state disconnected, with no socket made
\* for the attempt and no microphone or socket held.
C19_MicDeniedEndsDisconnected ==
    [][/\ trigger'.kind = "startListening" => connectionState' = "connecting"
       /\ (trigger'.kind = "startFailed" /\ error' = "microphone")
            => /\ connectionState' = "disconnected"
               /\ ws'[trigger'.sess] = "NONE"
               /\ mediaStreamRef' = 0
               /\ websocketRef' = 0]_vars

\* C19 happens: a start attempt has just failed on the microphone.
C19_Witness ==
    /\ trigger.kind = "startFailed"
    /\ error = "microphone"
    /\ connectionState = "disconnected"
    /\ ws[trigger.sess] = "NONE"

\* C21: the connection state enters connected only from connecting, enters
\* processing only from connected and enters responding only from processing.
C21_StateMovesAlongPath ==
    [][connectionState' # connectionState
        => /\ connectionState' = "connected" => connectionState = "connecting"
           /\ connectionState' = "processing" => connectionState = "connected"
           /\ connectionState' = "responding" => connectionState = "processing"]_vars

\* The candidate of session s is "not a wait request" by this step, in state
\* connected with its socket still held: at once (its Eager-End timer fired and
\* checkWaitIntent returned without a request), or by the reply to its request.
EagerNotWait(s) ==
    /\ connectionState = "connected"
    /\ websocketRef = s
    /\ \/ /\ trigger'.kind = "eagerEndTimeout"
          /\ Truthy(trigger'.transcript)
          /\ eagerTimers # <<>>
          /\ ~Head(eagerTimers).resumed
          /\ Head(eagerTimers).torn = "no"
          /\ GateRejects(Cur, trigger'.transcript)
       \/ /\ trigger'.kind = "eagerDecision"
          /\ ~trigger'.isWaitIntent
          /\ \A g \in gateCalls \ gateCalls' :
                ~g.resumed /\ ~g.superseded /\ g.torn = "no"

\* C22: when an Eager-End timer fires with no TurnResumed or StartOfTurn since
\* its frame, its transcript is non-empty and the Gate says "not wait", the
\* connection is torn down, the state becomes processing and the Finalizer is
\* called with the transcript of that EagerEndOfTurn frame.
C22_EagerNotWaitFinalizes ==
    [][\A s \in Sessions :
        (trigger'.sess = s /\ EagerNotWait(s))
        => /\ ws'[s] = "CLOSED"
           /\ websocketRef' = 0
           /\ Finalized(s, trigger'.transcript)]_vars

\* C23: a finalization point whose Gate request is refused because another
\* request is in flight changes nothing by that refusal: no teardown, no
\* Finalizer call, no wait extension.
C23_RejectedGateRequestIgnored ==
    [][( /\ trigger'.kind \in {"EndOfTurn", "eagerEndTimeout"}
         /\ Trim(trigger'.transcript) # <<>>
         /\ isCheckingWaitIntentRef
         /\ websocketRef # 0 )
        => /\ connectionState' = connectionState
           /\ ws' = ws
           /\ nPosts' = nPosts
           /\ finCalls' = finCalls
           /\ isExtendedWait' = isExtendedWait]_vars

\* C24: a StartOfTurn frame, whatever its transcript, clears extendedWait,
\* leaves no Eager-End timer of its session pending, and leaves the Watchdog
\* armed with the 7 s deadline; the connection state is unchanged.
C24_StartOfTurnResets ==
    [][trigger'.kind = "StartOfTurn"
        => /\ ~isExtendedWait'
           /\ eagerEndTimeoutRef' = 0
           /\ \A i \in 1..Len(eagerTimers') : eagerTimers'[i].sess # trigger'.sess
           /\ silenceTimers' = { [id |-> silenceTimeoutRef', extended |-> FALSE] }
           /\ connectionState' = connectionState]_vars

\* C25: a TurnResumed frame leaves no Eager-End timer of its session pending
\* and the Watchdog armed with the 7 s deadline, leaves the connection state
\* as it is, and makes no Gate request and no Finalizer call.
C25_TurnResumedCancels ==
    [][trigger'.kind = "TurnResumed"
        => /\ eagerEndTimeoutRef' = 0
           /\ \A i \in 1..Len(eagerTimers') : eagerTimers'[i].sess # trigger'.sess
           /\ silenceTimers' = { [id |-> silenceTimeoutRef', extended |-> FALSE] }
           /\ connectionState' = connectionState
           /\ Cardinality(gateCalls') = Cardinality(gateCalls)
           /\ finCalls' = finCalls
           /\ nPosts' = nPosts]_vars

\* C26: an Update frame with a non-empty transcript leaves the Watchdog armed
\* with the 7 s deadline; one with an empty transcript leaves the pending
\* Watchdog timer, the Eager-End timers, extendedWait, the displayed
\* transcript and the connection state as they were.
C26_UpdateRearmsIfSpeech ==
    [][trigger'.kind = "Update"
        => /\ Truthy(trigger'.transcript)
                => silenceTimers' = { [id |-> silenceTimeoutRef', extended |-> FALSE] }
           /\ trigger'.transcript = <<>>
                => /\ silenceTimers' = silenceTimers
                   /\ silenceTimeoutRef' = silenceTimeoutRef
                   /\ eagerTimers' = eagerTimers
                   /\ eagerEndTimeoutRef' = eagerEndTimeoutRef
                   /\ isExtendedWait' = isExtendedWait
                   /\ liveTranscript' = liveTranscript
                   /\ connectionState' = connectionState]_vars

\* C26 happens: an Update frame without text came during an extended wait and
\* the 20 s Watchdog is still the pending one.
C26_Witness ==
    /\ trigger.kind = "Update"
    /\ trigger.transcript = <<>>
    /\ connectionState = "connected"
    /\ isExtendedWait
    /\ silenceTimers = { [id |-> silenceTimeoutRef, extended |-> TRUE] }

\* C27: an EndOfTurn frame with an empty transcript makes no Gate request and
\* no Finalizer call and leaves the connection state, the socket, the displayed
\* transcript and the Watchdog as they were (the Eager-End timer the ref held
\* is cancelled); an Eager-End timer that fires for an empty candidate makes no
\* Gate request and no Finalizer call and leaves the connection state.
C27_EmptyCandidateIsNoOp ==
    [][/\ (trigger'.kind = "EndOfTurn" /\ trigger'.transcript = <<>>)
            => /\ gateCalls' = gateCalls
               /\ finCalls' = finCalls
               /\ nPosts' = nPosts
               /\ connectionState' = connectionState
               /\ ws' = ws
               /\ liveTranscript' = liveTranscript
               /\ silenceTimers' = silenceTimers
               /\ silenceTimeoutRef' = silenceTimeoutRef
               /\ eagerEndTimeoutRef' = 0
       /\ (trigger'.kind = "eagerEndTimeout" /\ trigger'.transcript = <<>>)
            => /\ gateCalls' = gateCalls
               /\ finCalls' = finCalls
               /\ nPosts' = nPosts
               /\ connectionState' = connectionState
               /\ ws' = ws
               /\ silenceTimers' = silenceTimers]_vars

\* C27 happens: an EndOfTurn frame without text left the session listening.
C27_Witness ==
    /\ trigger.kind = "EndOfTurn"
    /\ trigger.transcript = <<>>
    /\ connectionState = "connected"
    /\ ws[trigger.sess] = "OPEN"
    /\ Cardinality(silenceTimers) = 1
    /\ gateCalls = {}
    /\ nPosts[trigger.sess] = "none"

\* C28: whenever the connection state is processing a Finalizer call is in
\* flight and isProcessingRef is set.
C28_ProcessingHasFinalizer ==
    connectionState = "processing" => (isProcessingRef /\ finCalls # {})

\* C29: whenever the connection state is processing it is later disconnected,
\* given that every response stream ends and every started playback ends.
C29_ProcessingEndsDisconnected ==
    [](connectionState = "processing" => <>(connectionState = "disconnected"))

\* C30: whenever the connection state is connected exactly one Watchdog timer
\* is pending.
C30_ConnectedHasWatchdog ==
    connectionState = "connected" => Cardinality(silenceTimers) = 1

\* C31: whenever extendedWait is set in state connected, the pending Watchdog
\* timer is the one with the 20 s deadline.
C31_ExtendedWaitHasExtendedDeadline ==
    (isExtendedWait /\ connectionState = "connected")
        => silenceTimers = { [id |-> silenceTimeoutRef, extended |-> TRUE] }

\* C32: a timer callback or Gate continuation left over from an earlier
\* session changes nothing of the session started after it: not its socket,
\* its Watchdog, the connection state, extendedWait or its Finalizer calls.
C32_SessionsIndependent ==
    [][( /\ trigger'.kind \in DecisionKinds \cup {"eagerEndTimeout"}
         /\ trigger'.sess # 0
         /\ trigger'.sess < current )
        => /\ ws' = ws
           /\ connectionState' = connectionState
           /\ isExtendedWait' = isExtendedWait
           /\ silenceTimers' = silenceTimers
           /\ nPosts' = nPosts]_vars

\* C33: stopListening releases socket, microphone and Watchdog and then, for
\* a non-blank displayed transcript, calls the Finalizer with that transcript
\* (no Gate request) and the state is processing; for a blank one the state
\* is disconnected and no Finalizer call is made.
C33_StopFinalizesTranscript ==
    [][trigger'.kind = "stopListening"
        => /\ websocketRef' = 0
           /\ mediaStreamRef' = 0
           /\ silenceTimers' = {}
           /\ \A s \in Sessions : ws'[s] # "OPEN"
           /\ Cardinality(gateCalls') = Cardinality(gateCalls)
           /\ Trim(liveTranscript) # <<>>
                => Finalized(current, liveTranscript)
           /\ Trim(liveTranscript) = <<>>
                => /\ connectionState' = "disconnected"
                   /\ finCalls' = finCalls
                   /\ nPosts' = nPosts]_vars

\* C34: when the peer closes the socket while the state is connected, the
\* close handler sets the state to disconnected.
C34_CloseDisconnects ==
    [][(trigger'.kind = "onclose" /\ connectionState = "connected")
        => connectionState' = "disconnected"]_vars

\* C35: a handler sends CloseStream at most once and only on an open socket,
\* which is closed by the same handler; a closed socket stays closed, and an
\* audio frame is sent on an open socket only: so CloseStream is sent at most
\* once per connection and nothing follows it.
C35_CloseStreamIsLast ==
    [][LET sent == { i \in DOMAIN effects' : effects'[i] = "CloseStream" }
       IN  /\ Cardinality(sent) <= 1
           /\ sent # {}
                => /\ websocketRef # 0
                   /\ ws[websocketRef] = "OPEN"
                   /\ ws'[websocketRef] = "CLOSED"
                   /\ \A i \in DOMAIN effects' :
                        effects'[i] = "sendAudio" => \A j \in sent : i < j
           /\ \A s \in Sessions : ws[s] = "CLOSED" => ws'[s] = "CLOSED"
           /\ (\E i \in DOMAIN effects' : effects'[i] = "sendAudio")
                => websocketRef # 0 /\ ws[websocketRef] = "OPEN"]_vars

\* C35 happens: the Watchdog tore down a session whose socket the peer had
\* closed before: the socket is closed again and no CloseStream is sent.
C35_Witness ==
    /\ trigger.kind = "silenceTimeout"
    /\ \E i \in DOMAIN effects : effects[i] = "close"
    /\ \A i \in DOMAIN effects : effects[i] # "CloseStream"

\* C36: for every classifier reply the questionNumber of the response is a
\* number the reply's JSON gives, or -1 when the reply has no JSON object or
\* none with a questionNumber other than 0; and audioUrl is non-null exactly for
\* a questionNumber from 1 to 6, and is then "/<questionNumber>question.mp3".
C36_QuestionNumberAndAudio ==
    responseText # <<>>
    => LET reply   == responseText[1]
           numbers == { reply[i].questionNumber[1] :
                          i \in { j \in DOMAIN reply :
                                    /\ reply[j].kind = "object"
                                    /\ reply[j].questionNumber # <<>> } } \ {0}
           q       == data.questionNumber[1]
       IN  /\ Len(data.questionNumber) = 1
           /\ numbers = {} => q = -1
           /\ numbers # {} => q \in numbers
           /\ (data.audioUrl # <<>>) <=> (1 <= q /\ q <= 6)
           /\ data.audioUrl # <<>>
                => data.audioUrl =
                     << "/", <<"1", "2", "3", "4", "5", "6">>[q], "question.mp3" >>

\* C37: when the recording time reaches MAX_RECORDING_TIME_SECONDS, that tick
\* stops the MediaRecorder, sets isRecording to false and clears the interval.
C37_AutoStopAtLimit ==
    [][(recordingTime < MAX_RECORDING_TIME_SECONDS
            /\ recordingTime' = MAX_RECORDING_TIME_SECONDS)
        => /\ ~isRecording'
           /\ timerIntervalRef' = 0
           /\ mediaRecorderRef # 0 => recorder'[mediaRecorderRef] # "recording"]_vars

====
